---- MODULE Spec2Model ----
(***************************************************************************)
(* Trade-surveillance ETL: the enrichment stage (p02_enrichment/enrich.py),*)
(* the validation stage (p03_validation/rules.py, validator.py) and the    *)
(* ingestion stage (p01_ingestion/extract.py, schema.py).                  *)
(*                                                                         *)
(* Data representation.                                                    *)
(*   - A nullable cell is a sequence of length 0 or 1: NA is <<>>, a       *)
(*     present value v is <<v>>.  pandas' isna/notna are tests on that.    *)
(*   - isin, cusip, trade_date and trade_ts cells hold character sequences *)
(*     (the identifier regexes, the date parser and str.strip work on      *)
(*     characters); every other text cell holds a TLA+ string.             *)
(*   - Money (price, notional) is counted in hundredths, so 4,999,999.99   *)
(*     is the integer 499999999; quantity is an integer.                   *)
(*   - A DataFrame is [columns |-> set of names, rows |-> sequence of      *)
(*     records].  Every frame the pipeline handles carries a RangeIndex,   *)
(*     so the index label of the row at position i is i - 1.               *)
(***************************************************************************)
EXTENDS Integers, Sequences, FiniteSets, TLC

VARIABLES
    pc,           \* position in run_enrichment / run_validation
    pm_raw,       \* product_master.csv as read
    cm_raw,       \* client_master.csv as read
    pm,           \* product master after _load_reference
    cm,           \* client master after _load_reference
    df_ingested,  \* argument of run_enrichment
    df,           \* the local df of run_enrichment
    df_enriched,  \* argument of run_validation
    rules,        \* the list rules of run_all_rules, in running order
    out,          \* the list out of run_all_rules
    breaches,     \* the breach ledger returned by run_all_rules
    prev,         \* the ledger of the previous run of the battery on this batch
    passed,       \* df_passed
    failed,       \* df_failed
    metrics,      \* the metrics dict of run_validation
    mapping_csv,  \* the source_to_target mapping file, NA when it is absent
    raw_csv,      \* the inbound trades file, NA when it is absent
    mapping,      \* the dict returned by load_mapping, as its list of pairs
    raw_df,       \* raw_df of run_ingestion
    mapped_df,    \* mapped_df of run_ingestion
    normalized_df,\* normalized_df of run_ingestion
    error         \* the exception run_ingestion ended with, NA when none

ingestion_vars == <<mapping_csv, raw_csv, mapping, raw_df, mapped_df, normalized_df,
                    error>>

vars == <<pc, pm_raw, cm_raw, pm, cm, df_ingested, df, df_enriched, rules, out,
          breaches, prev, passed, failed, metrics, ingestion_vars>>

----------------------------------------------------------------------------
(* Cells *)

NA == <<>>

Val(v) == <<v>>

isna(x) == x = NA

notna(x) == x # NA

\* Series.combine_first on one cell: the caller's value, else the other's
combine_first(a, b) == IF notna(a) THEN a ELSE b

\* amounts are held in hundredths
Money(units) == units * 100

----------------------------------------------------------------------------
(* Sequences *)

RECURSIVE Flatten(_)
Flatten(ss) == IF ss = <<>> THEN <<>> ELSE Head(ss) \o Flatten(Tail(ss))

\* the positions of s, ascending, at which mask holds
RECURSIVE Where(_, _)
Where(mask, n) ==
    IF n = 0 THEN <<>>
    ELSE IF mask[n] THEN Append(Where(mask, n - 1), n) ELSE Where(mask, n - 1)

Range(s) == {s[i] : i \in DOMAIN s}

----------------------------------------------------------------------------
(* Text *)

\* str.strip on a character sequence
RECURSIVE LStrip(_)
LStrip(s) == IF s # <<>> /\ Head(s) = " " THEN LStrip(Tail(s)) ELSE s

RECURSIVE RStrip(_)
RStrip(s) ==
    IF s # <<>> /\ s[Len(s)] = " " THEN RStrip(SubSeq(s, 1, Len(s) - 1)) ELSE s

Strip(s) == RStrip(LStrip(s))

\* str.strip on the padded string literals the reference files may hold
StripStr(s) ==
    CASE s = " AAPL " -> "AAPL"
      [] s = "region " -> "region"
      [] s = " T1" -> "T1"
      [] s = "qty " -> "qty"
      [] s = "BUY " -> "BUY"
      [] OTHER -> s

CharCols == {"isin", "cusip", "trade_date", "trade_ts"}

StripCell(c, x) ==
    IF isna(x) THEN x
    ELSE IF c \in CharCols THEN Val(Strip(x[1])) ELSE Val(StripStr(x[1]))

----------------------------------------------------------------------------
(* DataFrames *)

Frame(columns, rows) == [columns |-> columns, rows |-> rows]

Project(f, columns) ==
    Frame(columns, [i \in DOMAIN f.rows |-> [c \in columns |-> f.rows[i][c]]])

\* DataFrame.rename(columns = {old: new}) when old is a column
Rename(f, old, new) ==
    LET nm(c) == IF c = old THEN new ELSE c
        columns == {nm(c) : c \in f.columns}
    IN  Frame(columns,
              [i \in DOMAIN f.rows |->
                 [c2 \in columns |->
                    f.rows[i][CHOOSE c \in f.columns : nm(c) = c2]]])

\* df[c] = cells for a column c, new or not; cells holds one cell per row
WithColumn(f, c, cells) ==
    LET columns == f.columns \cup {c}
    IN  Frame(columns,
              [i \in DOMAIN f.rows |->
                 [c2 \in columns |-> IF c2 = c THEN cells[i] ELSE f.rows[i][c2]]])

\* a column of nulls: df[c] = pd.NA
Nulls(f) == [i \in DOMAIN f.rows |-> NA]

DropColumn(f, c) == Project(f, f.columns \ {c})

(* DataFrame.merge(how = "left"): every left row in order, once per right   *)
(* row with an equal key in the right table's order, or once with NA in the *)
(* right columns when no right row has the key.  pandas matches a null key  *)
(* with a null key.  Columns other than a shared key that carry the same    *)
(* name on both sides take the suffixes.  The result has a fresh RangeIndex.*)
Merge(L, R, left_on, right_on, lsuffix, rsuffix) ==
    LET shared  == IF left_on = right_on THEN {left_on} ELSE {}
        rcols   == R.columns \ shared
        overlap == L.columns \cap rcols
        lname(c) == IF c \in overlap THEN c \o lsuffix ELSE c
        rname(c) == IF c \in overlap THEN c \o rsuffix ELSE c
        lnames  == {lname(c) : c \in L.columns}
        columns == lnames \cup {rname(c) : c \in rcols}
        lcol(c2) == CHOOSE c \in L.columns : lname(c) = c2
        rcol(c2) == CHOOSE c \in rcols : rname(c) = c2
        joined(l, r) ==
            [c2 \in columns |-> IF c2 \in lnames THEN l[lcol(c2)] ELSE r[rcol(c2)]]
        unmatched(l) ==
            [c2 \in columns |-> IF c2 \in lnames THEN l[lcol(c2)] ELSE NA]
        hits(l) == SelectSeq(R.rows, LAMBDA r : r[right_on] = l[left_on])
        expand(l) ==
            IF hits(l) = <<>> THEN <<unmatched(l)>>
            ELSE [k \in DOMAIN hits(l) |-> joined(l, hits(l)[k])]
    IN  Frame(columns, Flatten([i \in DOMAIN L.rows |-> expand(L.rows[i])]))

----------------------------------------------------------------------------
(* p02_enrichment/enrich.py *)

\* pm.columns = [c.strip() for c in pm.columns]
TrimHeaders(f) ==
    LET columns == {StripStr(c) : c \in f.columns}
    IN  Frame(columns,
              [i \in DOMAIN f.rows |->
                 [c2 \in columns |->
                    f.rows[i][CHOOSE c \in f.columns : StripStr(c) = c2]]])

\* df[c] = df[c].astype("string").str.strip() for every text column
StripValues(f) ==
    Frame(f.columns,
          [i \in DOMAIN f.rows |-> [c \in f.columns |-> StripCell(c, f.rows[i][c])]])

\* _load_reference, the product master
LoadProduct(raw) ==
    LET t == TrimHeaders(raw)
        u == IF "liq_rule_key" \in t.columns THEN t
             ELSE IF "liquidity_bucket" \in t.columns
                  THEN Rename(t, "liquidity_bucket", "liq_rule_key")
                  ELSE WithColumn(t, "liq_rule_key", Nulls(t))
    IN  StripValues(u)

\* _load_reference, the client master
LoadClient(raw) ==
    LET t == TrimHeaders(raw)
        u == IF "customerID" \notin t.columns /\ "client_id" \in t.columns
             THEN Rename(t, "client_id", "customerID")
             ELSE t
    IN  StripValues(u)

Raised == [raised |-> TRUE, frame |-> Frame({}, <<>>)]

Returned(f) == [raised |-> FALSE, frame |-> f]

(* _enrich_product.  The boolean mask need_cusip is indexed like out; used  *)
(* on df it is reindexed to df's labels, which are all labels of out.  The  *)
(* assignment of by_cusip's values is positional: it needs as many rows as  *)
(* the mask selects in out, except that a single row may be broadcast or    *)
(* rejected depending on the array type, so both outcomes are possible.     *)
EnrichProductOutcomes(d, p) ==
    LET out0 == Merge(d, Project(p, {"isin", "symbol", "instrument_type", "liq_rule_key"}),
                      "isin", "isin", "", "_pm")
        m == Len(out0.rows)
        n == Len(d.rows)
        need_cusip == [i \in 1..m |->
                         isna(out0.rows[i].symbol) /\ notna(out0.rows[i].cusip)]
        targets == Where(need_cusip, m)
        picked  == Where(need_cusip, n)
        left == Frame({"cusip"},
                      [k \in DOMAIN picked |-> [cusip |-> d.rows[picked[k]].cusip]])
        by_cusip == Merge(left,
                          Project(p, {"cusip", "symbol", "instrument_type", "liq_rule_key"}),
                          "cusip", "cusip", "_x", "_y")
        nth(i) == Cardinality({j \in 1..i : need_cusip[j]})
        assigned(src(_)) ==
            Frame(out0.columns,
                  [i \in 1..m |->
                     IF need_cusip[i]
                     THEN [out0.rows[i] EXCEPT
                             !.symbol = by_cusip.rows[src(i)].symbol,
                             !.instrument_type = by_cusip.rows[src(i)].instrument_type,
                             !.liq_rule_key = by_cusip.rows[src(i)].liq_rule_key]
                     ELSE out0.rows[i]])
        own(i, c) == IF i <= n THEN d.rows[i][c] ELSE NA
        combined(f) ==
            Frame(f.columns,
                  [i \in 1..m |->
                     [f.rows[i] EXCEPT
                        !.instrument_type = combine_first(@, own(i, "instrument_type")),
                        !.symbol = combine_first(@, own(i, "symbol"))]])
    IN  IF targets = <<>> THEN {Returned(combined(out0))}
        ELSE IF Len(by_cusip.rows) = Len(targets)
             THEN {Returned(combined(assigned(nth)))}
             ELSE IF Len(by_cusip.rows) = 1
                  THEN {Raised, Returned(combined(assigned(LAMBDA i : 1)))}
                  ELSE {Raised}

\* _enrich_client
EnrichClient(d, c) ==
    IF "customerID" \notin c.columns
    THEN WithColumn(WithColumn(d, "risk_tier", Nulls(d)), "region", Nulls(d))
    ELSE LET right  == Project(c, {"customerID"} \cup ({"risk_tier", "region"} \cap c.columns))
             merged == Merge(d, right, "client_id", "customerID", "_x", "_y")
             o1 == IF "customerID" \in merged.columns
                   THEN DropColumn(merged, "customerID") ELSE merged
             o2 == IF "risk_tier" \notin o1.columns
                   THEN WithColumn(o1, "risk_tier", Nulls(o1)) ELSE o1
         IN  IF "region" \notin o2.columns
             THEN WithColumn(o2, "region", Nulls(o2)) ELSE o2

\* quantity * price of one row, NaN when either is missing
Product(q, p) == IF notna(q) /\ notna(p) THEN Val(q[1] * p[1]) ELSE NA

\* a notional that is only filled where the record carries none
DeriveNotionalIfMissing(d) ==
    WithColumn(d, "notional",
               [i \in DOMAIN d.rows |->
                  combine_first(d.rows[i].notional,
                                Product(d.rows[i].quantity, d.rows[i].price))])

\* _derive_notional
DeriveNotional(d) ==
    WithColumn(d, "notional",
               [i \in DOMAIN d.rows |-> Product(d.rows[i].quantity, d.rows[i].price)])

BOND_HIGH == 5000000

BOND_MED == 1000000

DERIV_HIGH == 10000000

DERIV_MED == 2000000

\* the threshold rule with strict comparisons
rule_strict(it, n) ==
    IF isna(it) \/ isna(n) THEN NA
    ELSE IF it[1] = "BOND"
         THEN IF n[1] > Money(BOND_HIGH) THEN Val("HIGH")
              ELSE IF n[1] > Money(BOND_MED) THEN Val("MED") ELSE Val("LOW")
         ELSE IF it[1] \in {"SWAP", "FUTURE", "OPTION", "REPO"}
              THEN IF n[1] > Money(DERIV_HIGH) THEN Val("HIGH")
                   ELSE IF n[1] > Money(DERIV_MED) THEN Val("MED") ELSE Val("LOW")
              ELSE NA

\* the nested function rule(row) of _fill_liquidity
rule(it, n) ==
    IF isna(it) \/ isna(n) THEN NA
    ELSE IF it[1] = "BOND"
         THEN IF n[1] >= Money(BOND_HIGH) THEN Val("HIGH")
              ELSE IF n[1] >= Money(BOND_MED) THEN Val("MED") ELSE Val("LOW")
         ELSE IF it[1] \in {"SWAP", "FUTURE", "OPTION", "REPO"}
              THEN IF n[1] >= Money(DERIV_HIGH) THEN Val("HIGH")
                   ELSE IF n[1] >= Money(DERIV_MED) THEN Val("MED") ELSE Val("LOW")
              ELSE NA

\* _fill_liquidity
FillLiquidity(d) ==
    LET src(i) == d.rows[i].liquidity_bucket
        needs_fill(i) == isna(src(i)) /\ notna(d.rows[i].liq_rule_key)
        filled(i) == IF needs_fill(i) THEN d.rows[i].liq_rule_key ELSE src(i)
        still_missing(i) == isna(filled(i))
        final(i) == IF still_missing(i)
                    THEN rule(d.rows[i].instrument_type, d.rows[i].notional)
                    ELSE filled(i)
    IN  WithColumn(d, "liquidity_bucket", [i \in DOMAIN d.rows |-> final(i)])

\* the last step of run_enrichment
DropHint(d) == IF "liq_rule_key" \in d.columns THEN DropColumn(d, "liq_rule_key") ELSE d

----------------------------------------------------------------------------
(* Inputs of run_enrichment *)

CANONICAL_ORDER ==
    <<"trade_id", "order_id", "client_id", "isin", "cusip", "symbol", "side",
      "quantity", "price", "trade_date", "trade_ts", "currency", "venue",
      "instrument_type", "liquidity_bucket", "desk", "source_system",
      "risk_tier", "region", "notional">>

Canonical == Range(CANONICAL_ORDER)

ISIN_A == <<"U", "S", "0", "3", "7", "8", "3", "3", "1", "0", "0", "5">>

ISIN_B == <<"G", "B", "0", "0", "B", "H", "4", "H", "K", "S", "3", "9">>

ISIN_C == <<"D", "E", "0", "0", "0", "7", "1", "6", "4", "6", "0", "0">>

CUSIP_A == <<"0", "3", "7", "8", "3", "3", "1", "0", "0">>

CUSIP_B == <<"5", "9", "4", "9", "1", "8", "1", "0", "4">>

DATE_1 == <<"2", "0", "2", "4", "-", "0", "1", "-", "0", "1">>

DATE_2 == <<"2", "0", "2", "4", "-", "0", "1", "-", "0", "2">>

\* no calendar date
DATE_BAD == <<"2", "0", "2", "4", "-", "1", "3", "-", "4", "5">>

CLOCK == <<"T", "1", "0", ":", "0", "0", ":", "0", "0", "Z">>

TS_1 == DATE_1 \o CLOCK

TS_2 == DATE_2 \o CLOCK

TS_BAD == <<"n", "/", "a">>

\* a complete, valid canonical record
BaseRow ==
    [trade_id |-> Val("T1"), order_id |-> Val("O1"), client_id |-> Val("C1"),
     isin |-> Val(ISIN_C), cusip |-> NA, symbol |-> NA, side |-> Val("BUY"),
     quantity |-> Val(10), price |-> Val(Money(100)),
     trade_date |-> Val(DATE_2), trade_ts |-> Val(TS_2),
     currency |-> Val("USD"), venue |-> Val("XNYS"), instrument_type |-> Val("BOND"),
     liquidity_bucket |-> NA, desk |-> NA, source_system |-> NA,
     risk_tier |-> NA, region |-> NA, notional |-> NA]

MaxRows == 3

MaxPm == 2

MaxCm == 2

SeqsUpTo(S, n) == UNION {[1..k -> S] : k \in 0..n}

PmColumns == {"isin", "cusip", "symbol", "instrument_type", "liq_rule_key"}

PmEntry(i, c, s, t, l) ==
    [isin |-> i, cusip |-> c, symbol |-> s, instrument_type |-> t, liq_rule_key |-> l]

P1 == PmEntry(Val(ISIN_A), Val(CUSIP_A), Val("AAPL"), Val("BOND"), Val("HIGH"))

P2 == PmEntry(Val(ISIN_B), Val(CUSIP_B), Val("MSFT"), Val("SWAP"), Val("LOW"))

\* repeats P1's ISIN and P2's CUSIP, and carries no attributes
P3 == PmEntry(Val(ISIN_A), Val(CUSIP_B), NA, NA, NA)

\* a reference row without keys
P4 == PmEntry(NA, NA, Val("NOKEY"), Val("REPO"), Val("MED"))

\* a row as the file holds it before trimming
P1Padded == PmEntry(Val(<<" ">> \o ISIN_A \o <<" ">>), Val(CUSIP_A), Val(" AAPL "),
                    Val("BOND"), Val("HIGH"))

PmTables ==
    {Frame(PmColumns, t) : t \in SeqsUpTo({P1, P2, P3, P4}, MaxPm)}
    \cup {Frame(PmColumns, <<P1Padded>>),
          Rename(Frame(PmColumns, <<P1, P2>>), "liq_rule_key", "liquidity_bucket"),
          DropColumn(Frame(PmColumns, <<P1, P2>>), "liq_rule_key")}

CmEntry(k, t, r) == [customerID |-> k, risk_tier |-> t, region |-> r]

K1 == CmEntry(Val("C1"), Val("TIER1"), Val("EU"))

\* repeats K1's client identifier
K2 == CmEntry(Val("C1"), Val("TIER2"), Val("US"))

K3 == CmEntry(NA, Val("TIER3"), Val("AP"))

CmFull(t) == Frame({"customerID", "risk_tier", "region"}, t)

CmTables ==
    UNION {{CmFull(t),
            Rename(CmFull(t), "customerID", "client_id"),
            Rename(CmFull(t), "customerID", "cust_no"),
            DropColumn(CmFull(t), "risk_tier"),
            Rename(CmFull(t), "region", "region ")} :
           t \in SeqsUpTo({K1, K2, K3}, MaxCm)}

Canon(rows) == Frame(Canonical, rows)

\* records that differ in what product resolution reads
JoinRows ==
    {[BaseRow EXCEPT !.isin = i, !.cusip = c, !.symbol = s, !.instrument_type = t] :
       i \in {NA, Val(ISIN_A), Val(ISIN_B), Val(ISIN_C)},
       c \in {NA, Val(CUSIP_A), Val(CUSIP_B)},
       s \in {NA, Val("OWN")},
       t \in {NA, Val("FUTURE")}}

\* records that differ in what client resolution reads
ClientRows ==
    {[BaseRow EXCEPT !.client_id = k, !.risk_tier = t, !.region = t] :
       k \in {NA, Val("C1"), Val("C2")}, t \in {NA, Val("OLD")}}

Prices ==
    {NA, Val(100), Val(99999999), Val(100000000), Val(199999999), Val(499999999),
     Val(500000000), Val(999999999), Val(1000000000)}

\* records that differ in what the derived fields read
DeriveRows ==
    {[BaseRow EXCEPT !.isin = i, !.instrument_type = t, !.liquidity_bucket = b,
                     !.quantity = q, !.price = p, !.notional = n] :
       i \in {Val(ISIN_A), Val(ISIN_C)},
       t \in {NA, Val("BOND"), Val("SWAP"), Val("FUTURE"), Val("OPTION"), Val("REPO"),
              Val("EQUITY")},
       b \in {NA, Val("LOW")},
       q \in {NA, Val(1), Val(2)},
       p \in Prices,
       n \in {NA, Val(777)}}

\* a BOND of notional exactly 5,000,000 with no bucket and no hint
BondAtHigh == [BaseRow EXCEPT !.quantity = Val(1), !.price = Val(500000000)]

\* a BOND of notional 4,999,999.99 with no bucket and no hint
BondBelowHigh == [BaseRow EXCEPT !.trade_id = Val("T2"), !.quantity = Val(1),
                                 !.price = Val(499999999)]

\* a BOND of notional 1 that already carries the bucket HIGH
BondKeepsHigh == [BaseRow EXCEPT !.trade_id = Val("T3"), !.isin = Val(ISIN_A),
                                 !.quantity = Val(1), !.price = Val(100),
                                 !.liquidity_bucket = Val("HIGH")]

SmallRows == {BondAtHigh, BondBelowHigh, BondKeepsHigh}

Input(d, p, c) == [df |-> d, pm |-> p, cm |-> c]

EnrichInputs ==
    {Input(Canon(<<r>>), p, CmFull(<<K1>>)) : r \in JoinRows, p \in PmTables}
    \cup {Input(Canon(<<r>>), Frame(PmColumns, <<P1>>), c) : r \in ClientRows, c \in CmTables}
    \cup {Input(Canon(<<r>>), Frame(PmColumns, <<P1>>), CmFull(<<K1>>)) : r \in DeriveRows}
    \cup {Input(Canon(t), Frame(PmColumns, p), CmFull(<<K1>>)) :
            t \in SeqsUpTo(SmallRows, MaxRows), p \in {<<>>, <<P1>>, <<P1, P3>>}}

NoFrame == Frame({}, <<>>)

\* run_ingestion has not been called
NoIngestion ==
    /\ mapping_csv = NA
    /\ raw_csv = NA
    /\ mapping = <<>>
    /\ raw_df = NoFrame
    /\ mapped_df = NoFrame
    /\ normalized_df = NoFrame
    /\ error = NA

----------------------------------------------------------------------------
(* run_enrichment *)

InitEnrich ==
    /\ pc = "load"
    /\ \E inp \in EnrichInputs :
         /\ df_ingested = inp.df
         /\ pm_raw = inp.pm
         /\ cm_raw = inp.cm
    /\ pm = NoFrame
    /\ cm = NoFrame
    /\ df = NoFrame
    /\ df_enriched = NoFrame
    /\ rules = <<>>
    /\ out = <<>>
    /\ breaches = <<>>
    /\ prev = <<>>
    /\ passed = <<>>
    /\ failed = <<>>
    /\ metrics = <<>>
    /\ NoIngestion

validation_vars == <<df_enriched, rules, out, breaches, prev, passed, failed, metrics>>

\* pm, cm = _load_reference()
load_reference ==
    /\ pc = "load"
    /\ pm' = LoadProduct(pm_raw)
    /\ cm' = LoadClient(cm_raw)
    /\ pc' = "product"
    /\ UNCHANGED <<pm_raw, cm_raw, df_ingested, df, validation_vars, ingestion_vars>>

\* df = _enrich_product(df_ingested, pm)
enrich_product ==
    /\ pc = "product"
    /\ \E o \in EnrichProductOutcomes(df_ingested, pm) :
         IF o.raised
         THEN pc' = "raised" /\ df' = df
         ELSE pc' = "client" /\ df' = o.frame
    /\ UNCHANGED <<pm_raw, cm_raw, pm, cm, df_ingested, validation_vars, ingestion_vars>>

\* df = _enrich_client(df, cm)
enrich_client ==
    /\ pc = "client"
    /\ df' = EnrichClient(df, cm)
    /\ pc' = "notional"
    /\ UNCHANGED <<pm_raw, cm_raw, pm, cm, df_ingested, validation_vars, ingestion_vars>>

\* df = _derive_notional(df)
derive_notional ==
    /\ pc = "notional"
    /\ df' = DeriveNotional(df)
    /\ pc' = "liquidity"
    /\ UNCHANGED <<pm_raw, cm_raw, pm, cm, df_ingested, validation_vars, ingestion_vars>>

\* df = _fill_liquidity(df)
fill_liquidity ==
    /\ pc = "liquidity"
    /\ df' = FillLiquidity(df)
    /\ pc' = "drop"
    /\ UNCHANGED <<pm_raw, cm_raw, pm, cm, df_ingested, validation_vars, ingestion_vars>>

\* df = df.drop(columns = ["liq_rule_key"]); return df
drop_hint ==
    /\ pc = "drop"
    /\ df' = DropHint(df)
    /\ pc' = "enriched"
    /\ UNCHANGED <<pm_raw, cm_raw, pm, cm, df_ingested, validation_vars, ingestion_vars>>

NextEnrich ==
    \/ load_reference
    \/ enrich_product
    \/ enrich_client
    \/ derive_notional
    \/ fill_liquidity
    \/ drop_hint

SpecEnrich == InitEnrich /\ [][NextEnrich]_vars

----------------------------------------------------------------------------
(* Properties of run_enrichment *)

\* the columns enrichment never writes: they identify the record
IdentityColumns ==
    Canonical \ {"symbol", "instrument_type", "liquidity_bucket", "risk_tier",
                 "region", "notional"}

SameRecord(a, b) == \A c \in IdentityColumns : a[c] = b[c]

\* C2: run_enrichment returns a batch with as many rows as its input, in the
\* same order, each row the input row of the same position, whatever the
\* reference tables hold (repeated or null join keys included).
C2_SameCardinality ==
    pc = "enriched" =>
      /\ Len(df.rows) = Len(df_ingested.rows)
      /\ \A i \in DOMAIN df.rows : SameRecord(df.rows[i], df_ingested.rows[i])

\* no two rows of the table share a value of column k
UniqueKey(t, k) ==
    \A i, j \in DOMAIN t.rows : i # j => t.rows[i][k] # t.rows[j][k]

IsinHits(r) == {e \in Range(pm.rows) : notna(r.isin) /\ e.isin = r.isin}

CusipHits(r) == {e \in Range(pm.rows) : notna(r.cusip) /\ e.cusip = r.cusip}

\* the primary join on ISIN yielded a symbol
IsinSymbol(r) == \E e \in IsinHits(r) : notna(e.symbol)

\* the reference entry the record resolves to: by ISIN, else by CUSIP
Matched(r) ==
    IF IsinSymbol(r) \/ isna(r.cusip) THEN IsinHits(r) ELSE CusipHits(r)

AfterProduct ==
    /\ pc = "client"
    /\ UniqueKey(pm, "isin")
    /\ UniqueKey(pm, "cusip")
    /\ Len(df.rows) = Len(df_ingested.rows)

\* C3: after _enrich_product, symbol and instrument_type hold the matched
\* reference entry's value when that value is non-null and the record's own
\* value otherwise; a non-null value of the record never becomes null.
C3_ReferenceValueWins ==
    AfterProduct =>
      \A i \in DOMAIN df.rows :
        LET r == df_ingested.rows[i]
            o == df.rows[i]
        IN  /\ \A e \in Matched(r) :
                 /\ o.symbol = combine_first(e.symbol, r.symbol)
                 /\ o.instrument_type = combine_first(e.instrument_type, r.instrument_type)
            /\ Matched(r) = {} =>
                 o.symbol = r.symbol /\ o.instrument_type = r.instrument_type
            /\ notna(r.symbol) => notna(o.symbol)
            /\ notna(r.instrument_type) => notna(o.instrument_type)

\* C4: the CUSIP join is applied to exactly the rows whose ISIN join yielded
\* no symbol and whose CUSIP is non-null: a row whose ISIN matched keeps the
\* ISIN entry's symbol, instrument_type and liq_rule_key, and every row
\* without an ISIN symbol that has a CUSIP receives the CUSIP entry's values.
C4_CusipOnlyWhenIsinFails ==
    AfterProduct =>
      \A i \in DOMAIN df.rows :
        LET r == df_ingested.rows[i]
            o == df.rows[i]
        IN  /\ IsinSymbol(r) =>
                 \A e \in IsinHits(r) :
                   /\ o.symbol = e.symbol
                   /\ o.liq_rule_key = e.liq_rule_key
                   /\ notna(e.instrument_type) => o.instrument_type = e.instrument_type
            /\ ~IsinSymbol(r) /\ notna(r.cusip) =>
                 \A e \in CusipHits(r) :
                   /\ o.liq_rule_key = e.liq_rule_key
                   /\ notna(e.symbol) => o.symbol = e.symbol
                   /\ notna(e.instrument_type) => o.instrument_type = e.instrument_type

\* C5: after _enrich_client on a canonical batch, every row whose client_id
\* matches a client entry carries that entry's risk_tier and region; with no
\* key column in the client table both are null for every row.
C5_ClientAttributes ==
    pc = "notional" =>
      /\ "customerID" \notin cm.columns =>
           \A i \in DOMAIN df.rows :
             isna(df.rows[i].risk_tier) /\ isna(df.rows[i].region)
      /\ /\ {"customerID", "risk_tier", "region"} \subseteq cm.columns
         /\ UniqueKey(cm, "customerID")
         => \A i \in DOMAIN df.rows :
              \A e \in Range(cm.rows) :
                notna(df.rows[i].client_id) /\ e.customerID = df.rows[i].client_id =>
                  /\ df.rows[i].risk_tier = e.risk_tier
                  /\ df.rows[i].region = e.region

\* C6: after run_enrichment every row with a quantity and a price has
\* notional = quantity * price, whatever notional it carried before.
C6_NotionalRecomputed ==
    pc = "enriched" =>
      \A i \in DOMAIN df.rows :
        LET o == df.rows[i]
        IN  notna(o.quantity) /\ notna(o.price) =>
              o.notional = Val(o.quantity[1] * o.price[1])

\* a record that came with another notional leaves with quantity * price
C6_Witness ==
    /\ pc = "enriched"
    /\ Len(df_ingested.rows) = 1
    /\ Len(df.rows) = 1
    /\ df_ingested.rows[1].notional = Val(777)
    /\ df_ingested.rows[1].quantity = Val(2)
    /\ df_ingested.rows[1].price = Val(500000000)
    /\ df.rows[1].notional = Val(1000000000)

\* the bucket the stated precedence gives a row about to enter _fill_liquidity
C7_Expected(r) ==
    IF notna(r.liquidity_bucket) THEN r.liquidity_bucket
    ELSE IF notna(r.liq_rule_key) THEN r.liq_rule_key
    ELSE IF isna(r.instrument_type) \/ isna(r.notional) THEN NA
    ELSE IF r.instrument_type = Val("BOND")
         THEN (IF r.notional[1] >= 500000000 THEN Val("HIGH")
               ELSE IF r.notional[1] >= 100000000 THEN Val("MED") ELSE Val("LOW"))
    ELSE IF r.instrument_type \in {Val("SWAP"), Val("FUTURE"), Val("OPTION"), Val("REPO")}
         THEN (IF r.notional[1] >= 1000000000 THEN Val("HIGH")
               ELSE IF r.notional[1] >= 200000000 THEN Val("MED") ELSE Val("LOW"))
    ELSE NA

\* C7: _fill_liquidity keeps an existing bucket, else takes the hint
\* liq_rule_key, else applies the notional thresholds of the instrument type
\* (BOND: 5,000,000 and 1,000,000; SWAP/FUTURE/OPTION/REPO: 10,000,000 and
\* 2,000,000, each bound inclusive), else leaves the bucket null.
C7_LiquidityPrecedence ==
    [][pc = "liquidity" =>
         /\ Len(df'.rows) = Len(df.rows)
         /\ \A i \in DOMAIN df.rows :
              df'.rows[i].liquidity_bucket = C7_Expected(df.rows[i])]_vars

\* the three stated cases side by side: 5,000,000 gives HIGH, 4,999,999.99
\* gives MED, and an existing HIGH with notional 1 stays HIGH
C7_Witness ==
    /\ pc = "drop"
    /\ df_ingested.rows = <<BondAtHigh, BondBelowHigh, BondKeepsHigh>>
    /\ pm.rows = <<>>
    /\ Len(df.rows) = 3
    /\ df.rows[1].notional = Val(500000000) /\ df.rows[1].liquidity_bucket = Val("HIGH")
    /\ df.rows[2].notional = Val(499999999) /\ df.rows[2].liquidity_bucket = Val("MED")
    /\ df.rows[3].notional = Val(100) /\ df.rows[3].liquidity_bucket = Val("HIGH")

----------------------------------------------------------------------------
(* p03_validation/rules.py *)

ENUM_SIDE == {"BUY", "SELL"}

ENUM_INSTRUMENT == {"BOND", "SWAP", "FUTURE", "OPTION", "REPO"}

ENUM_CCY == {"USD", "EUR", "GBP", "JPY"}

Upper == {"A", "B", "C", "D", "E", "F", "G", "H", "I", "J", "K", "L", "M", "N", "O",
          "P", "Q", "R", "S", "T", "U", "V", "W", "X", "Y", "Z"}

Digit == {"0", "1", "2", "3", "4", "5", "6", "7", "8", "9"}

\* str.fullmatch of ^[A-Z]{2}[A-Z0-9]{9}[0-9]$
ISIN_RE(s) ==
    /\ Len(s) = 12
    /\ \A k \in 1..2 : s[k] \in Upper
    /\ \A k \in 3..11 : s[k] \in Upper \cup Digit
    /\ s[12] \in Digit

\* str.fullmatch of ^[A-Z0-9]{9}$
CUSIP_RE(s) == Len(s) = 9 /\ \A k \in 1..9 : s[k] \in Upper \cup Digit

DigitValue(c) ==
    CASE c = "0" -> 0 [] c = "1" -> 1 [] c = "2" -> 2 [] c = "3" -> 3 [] c = "4" -> 4
      [] c = "5" -> 5 [] c = "6" -> 6 [] c = "7" -> 7 [] c = "8" -> 8 [] c = "9" -> 9

RECURSIVE Number(_)
Number(s) == IF s = <<>> THEN 0
             ELSE 10 * Number(SubSeq(s, 1, Len(s) - 1)) + DigitValue(s[Len(s)])

IsDigits(s) == \A k \in DOMAIN s : s[k] \in Digit

DaysIn(y, m) ==
    IF m = 2 THEN (IF y % 4 = 0 /\ (y % 100 # 0 \/ y % 400 = 0) THEN 29 ELSE 28)
    ELSE IF m \in {4, 6, 9, 11} THEN 30 ELSE 31

\* s reads YYYY-MM-DD and names a calendar day
IsDate(s) ==
    /\ Len(s) = 10
    /\ IsDigits(SubSeq(s, 1, 4)) /\ s[5] = "-"
    /\ IsDigits(SubSeq(s, 6, 7)) /\ s[8] = "-"
    /\ IsDigits(SubSeq(s, 9, 10))
    /\ Number(SubSeq(s, 6, 7)) \in 1..12
    /\ Number(SubSeq(s, 9, 10)) \in 1..DaysIn(Number(SubSeq(s, 1, 4)), Number(SubSeq(s, 6, 7)))

\* s reads Thh:mm:ssZ
IsClock(s) ==
    /\ Len(s) = 10
    /\ s[1] = "T" /\ s[4] = ":" /\ s[7] = ":" /\ s[10] = "Z"
    /\ IsDigits(SubSeq(s, 2, 3)) /\ Number(SubSeq(s, 2, 3)) \in 0..23
    /\ IsDigits(SubSeq(s, 5, 6)) /\ Number(SubSeq(s, 5, 6)) \in 0..59
    /\ IsDigits(SubSeq(s, 8, 9)) /\ Number(SubSeq(s, 8, 9)) \in 0..59

\* a day count that orders calendar days
DayNumber(s) ==
    (Number(SubSeq(s, 1, 4)) * 12 + Number(SubSeq(s, 6, 7))) * 31 + Number(SubSeq(s, 9, 10))

(* pd.to_datetime(errors = "coerce") on the two text forms the canonical    *)
(* schema holds: a date YYYY-MM-DD and a UTC instant YYYY-MM-DDThh:mm:ssZ.  *)
(* The result is kept to its day; anything else is NaT.                     *)
to_datetime(x) ==
    IF isna(x) THEN NA
    ELSE IF IsDate(x[1]) THEN Val(DayNumber(x[1]))
    ELSE IF Len(x[1]) = 20 /\ IsDate(SubSeq(x[1], 1, 10)) /\ IsClock(SubSeq(x[1], 11, 20))
         THEN Val(DayNumber(x[1]))
         ELSE NA

\* df.index
Index(d) == {i - 1 : i \in DOMAIN d.rows}

\* df[mask].index, for a boolean mask with one entry per row
Labels(d, mask) == {i - 1 : i \in {j \in DOMAIN d.rows : mask[j]}}

\* an index as the ascending list of its labels
Sorted(d, idx) == SelectSeq([k \in DOMAIN d.rows |-> k - 1], LAMBDA x : x \in idx)

\* str(value) of a text cell
Str(x) == IF isna(x) THEN "<NA>" ELSE x[1]

\* _breaches_df
breaches_df(rule_id, severity, reason, idx, d) ==
    LET labels == Sorted(d, idx)
        t(i) == IF "trade_id" \in d.columns THEN Str(d.rows[i + 1].trade_id) ELSE "NA"
        o(i) == IF "order_id" \in d.columns THEN Str(d.rows[i + 1].order_id) ELSE "NA"
    IN  [k \in DOMAIN labels |->
           [rule_id |-> rule_id, severity |-> severity, reason |-> reason,
            row_index |-> labels[k],
            keys |-> [trade_id |-> t(labels[k]), order_id |-> o(labels[k])]]]

required ==
    <<"trade_id", "order_id", "client_id", "side", "quantity", "price", "trade_ts",
      "instrument_type">>

\* the loop of rule_mandatory from the k-th required column on
RECURSIVE missing_idx(_, _, _)
missing_idx(d, k, acc) ==
    IF k > Len(required) THEN acc
    ELSE IF required[k] \notin d.columns THEN Index(d)
    ELSE missing_idx(d, k + 1, acc \cup Labels(d, [j \in DOMAIN d.rows |-> isna(d.rows[j][required[k]])]))

\* a rule that passes over a required column the batch does not have
rule_mandatory_present(d) ==
    breaches_df("R001_MANDATORY", "CRITICAL", "Mandatory fields must not be null",
                UNION {Labels(d, [j \in DOMAIN d.rows |-> isna(d.rows[j][c])]) : c \in Range(required) \cap d.columns},
                d)

rule_mandatory(d) ==
    breaches_df("R001_MANDATORY", "CRITICAL", "Mandatory fields must not be null",
                missing_idx(d, 1, {}), d)

\* ~df[c].isin(domain) & df[c].notna(), when the column exists
NotInEnum(d, c, domain) ==
    IF c \in d.columns
    THEN Labels(d, [j \in DOMAIN d.rows |->
                     notna(d.rows[j][c]) /\ d.rows[j][c][1] \notin domain])
    ELSE {}

rule_domain_enums(d) ==
    breaches_df("R002_ENUMS", "HIGH", "Value not in allowed enumerations",
                NotInEnum(d, "side", ENUM_SIDE)
                  \cup NotInEnum(d, "instrument_type", ENUM_INSTRUMENT)
                  \cup NotInEnum(d, "currency", ENUM_CCY),
                d)

NotPositive(d, c) ==
    IF c \in d.columns THEN Labels(d, [j \in DOMAIN d.rows |-> notna(d.rows[j][c]) /\ d.rows[j][c][1] <= 0]) ELSE {}

rule_numeric_positive(d) ==
    breaches_df("R003_POSITIVE", "HIGH", "Quantity and Price must be > 0",
                NotPositive(d, "quantity") \cup NotPositive(d, "price"), d)

rule_identifier_format(d) ==
    LET bad_isin  == IF "isin" \in d.columns
                     THEN Labels(d, [j \in DOMAIN d.rows |->
                            notna(d.rows[j].isin) /\ ~ISIN_RE(d.rows[j].isin[1])])
                     ELSE {}
        bad_cusip == IF "cusip" \in d.columns
                     THEN Labels(d, [j \in DOMAIN d.rows |->
                            notna(d.rows[j].cusip) /\ ~CUSIP_RE(d.rows[j].cusip[1])])
                     ELSE {}
    IN  breaches_df("R004_ID_FORMAT", "MEDIUM", "Invalid ISIN/CUSIP format",
                    bad_isin \cup bad_cusip, d)

rule_timestamp_sanity(d) ==
    LET bad_order ==
          IF "trade_date" \in d.columns /\ "trade_ts" \in d.columns
          THEN Labels(d, [j \in DOMAIN d.rows |->
                         LET tdate == to_datetime(d.rows[j].trade_date)
                             tts   == to_datetime(d.rows[j].trade_ts)
                         IN  notna(tdate) /\ notna(tts) /\ tts[1] < tdate[1]])
          ELSE {}
    IN  breaches_df("R005_TS_SANITY", "MEDIUM", "trade_ts must be on/after trade_date",
                    bad_order, d)

Abs(x) == IF x < 0 THEN -x ELSE x

\* the tolerance 0.01, in hundredths
TOLERANCE == 1

rule_notional_consistency(d) ==
    LET idx ==
          IF {"quantity", "price", "notional"} \subseteq d.columns
          THEN Labels(d, [j \in DOMAIN d.rows |->
                         LET r == d.rows[j]
                         IN  /\ notna(r.quantity) /\ notna(r.price) /\ notna(r.notional)
                             /\ Abs(r.notional[1] - r.quantity[1] * r.price[1]) > TOLERANCE])
          ELSE {}
    IN  breaches_df("R006_NOTIONAL", "LOW",
                    "Notional differs from quantity*price (tolerance 0.01)", idx, d)

\* a mask that spares the first row of every group: duplicated(keep = "first")
duplicated_later(d, subset) ==
    LET key(i) == [c \in subset |-> d.rows[i][c]]
    IN  {i - 1 : i \in {j \in DOMAIN d.rows : \E k \in 1..(j - 1) : key(k) = key(j)}}

\* df[df.duplicated(subset, keep = False)].index: the rows of every group of
\* equal keys that has more than one row; null cells compare equal
duplicated(d, subset) ==
    LET key(i) == [c \in subset |-> d.rows[i][c]]
        group(i) == {j \in DOMAIN d.rows : key(j) = key(i)}
    IN  {i - 1 : i \in {j \in DOMAIN d.rows : Cardinality(group(j)) > 1}}

rule_duplicate_keys(d) ==
    LET d1 == IF "trade_id" \in d.columns THEN duplicated(d, {"trade_id"}) ELSE {}
        cols == {"order_id", "trade_ts", "quantity", "price"}
        d2 == IF cols \subseteq d.columns THEN duplicated(d, cols) ELSE {}
    IN  breaches_df("R007_DUPLICATES", "CRITICAL",
                    "Duplicate trade_id or (order_id,trade_ts,quantity,price) collision",
                    d1 \cup d2, d)

\* the list rules of run_all_rules
RULES ==
    <<"rule_mandatory", "rule_domain_enums", "rule_numeric_positive",
      "rule_identifier_format", "rule_timestamp_sanity", "rule_notional_consistency",
      "rule_duplicate_keys">>

\* r(df) for the rule named r
Apply(r, d) ==
    CASE r = "rule_mandatory" -> rule_mandatory(d)
      [] r = "rule_domain_enums" -> rule_domain_enums(d)
      [] r = "rule_numeric_positive" -> rule_numeric_positive(d)
      [] r = "rule_identifier_format" -> rule_identifier_format(d)
      [] r = "rule_timestamp_sanity" -> rule_timestamp_sanity(d)
      [] r = "rule_notional_consistency" -> rule_notional_consistency(d)
      [] r = "rule_duplicate_keys" -> rule_duplicate_keys(d)

\* a filter that also drops the frames of a single breach
concat_many(o) == Flatten(SelectSeq(o, LAMBDA b : Len(b) > 1))

\* out = [o for o in out if len(o) > 0]; pd.concat(out, ignore_index = True)
concat(o) == Flatten(SelectSeq(o, LAMBDA b : Len(b) > 0))

----------------------------------------------------------------------------
(* p03_validation/validator.py *)

\* a failed set that counts only the CRITICAL and HIGH breaches
failed_idx_severe(b) ==
    {b[k].row_index : k \in {j \in DOMAIN b : b[j].severity \in {"CRITICAL", "HIGH"}}}

\* failed_idx = set(breaches["row_index"].tolist())
failed_idx(b) == {b[k].row_index : k \in DOMAIN b}

\* df_enriched.index.isin(idx), one entry per row
IndexIsin(d, idx) == [i \in DOMAIN d.rows |-> (i - 1) \in idx]

\* df_enriched.loc[mask]: the selected rows, each with its index label
Loc(d, mask) ==
    SelectSeq([i \in DOMAIN d.rows |-> [row_index |-> i - 1, row |-> d.rows[i]]],
              LAMBDA e : mask[e.row_index + 1])

\* a pass rate cut to two decimals instead of rounded
pass_rate_pct_truncated(n_passed, n_total) ==
    (10000 * n_passed) \div (IF n_total > 1 THEN n_total ELSE 1)

\* round(100.0 * passed / max(1, total), 2), in hundredths of a percent
pass_rate_pct(n_passed, n_total) ==
    LET den == IF n_total > 1 THEN n_total ELSE 1
    IN  (2 * 10000 * n_passed + den) \div (2 * den)

Metrics(d, p, f, b) ==
    [input_rows |-> Len(d.rows), passed_rows |-> Len(p), failed_rows |-> Len(f),
     breach_count |-> Len(b), pass_rate_pct |-> pass_rate_pct(Len(p), Len(d.rows))]

----------------------------------------------------------------------------
(* Inputs of run_validation *)

MaxValRows == 3

\* a record no rule objects to
RowA == [BaseRow EXCEPT !.isin = Val(ISIN_A), !.notional = Val(100000),
                        !.liquidity_bucket = Val("LOW")]

\* quantity -5
RowB == [RowA EXCEPT !.trade_id = Val("T2"), !.order_id = Val("O2"),
                     !.quantity = Val(-5), !.notional = Val(-50000)]

\* repeats RowA's trade_id and nothing else
RowC == [RowA EXCEPT !.order_id = Val("O3")]

\* repeats RowA's (order_id, trade_ts, quantity, price) under its own trade_id
RowD == [RowA EXCEPT !.trade_id = Val("T4")]

\* another record no rule objects to
RowE == [RowA EXCEPT !.trade_id = Val("T5"), !.order_id = Val("O5")]

\* its only fault is a notional 0.02 away from quantity * price
RowF == [RowA EXCEPT !.trade_id = Val("T6"), !.order_id = Val("O6"),
                     !.notional = Val(100002)]

\* no trade_id
RowG == [RowA EXCEPT !.trade_id = NA, !.order_id = Val("O7")]

\* no trade_id either, and nothing else in common with RowG
RowH == [RowA EXCEPT !.trade_id = NA, !.order_id = Val("O8")]

BatchRows == {RowA, RowB, RowC, RowD, RowE, RowF, RowG, RowH}

\* RowA with one cell changed
DeviantRows ==
    {[RowA EXCEPT ![c] = NA] : c \in Range(required) \cup {"currency", "isin", "trade_date", "notional"}}
    \cup {[RowA EXCEPT !.side = Val(v)] : v \in {"SELL", "HOLD"}}
    \cup {[RowA EXCEPT !.instrument_type = Val(v)] : v \in {"REPO", "EQUITY"}}
    \cup {[RowA EXCEPT !.currency = Val(v)] : v \in {"JPY", "CHF"}}
    \cup {[RowA EXCEPT !.quantity = Val(v), !.notional = Val(v * 10000)] : v \in {0, -5}}
    \cup {[RowA EXCEPT !.price = Val(v), !.notional = Val(v * 10)] : v \in {0, -100}}
    \cup {[RowA EXCEPT !.isin = Val(v)] :
            v \in {SubSeq(ISIN_A, 1, 11), <<"u", "s">> \o SubSeq(ISIN_A, 3, 12),
                   SubSeq(ISIN_A, 1, 11) \o <<"X">>}}
    \cup {[RowA EXCEPT !.cusip = Val(v)] :
            v \in {CUSIP_A, SubSeq(CUSIP_A, 1, 8), SubSeq(CUSIP_A, 1, 8) \o <<"-">>}}
    \cup {[RowA EXCEPT !.trade_ts = Val(v)] : v \in {TS_1, TS_BAD}}
    \cup {[RowA EXCEPT !.trade_date = Val(v)] : v \in {DATE_1, DATE_BAD}}
    \cup {[RowA EXCEPT !.notional = Val(v)] : v \in {99998, 100003}}

\* columns a batch may come without
Droppable == Range(required) \cup {"currency", "isin", "cusip", "trade_date", "notional"}

ValidationBatches ==
    {Canon(<<r>>) : r \in DeviantRows}
    \cup {Canon(t) : t \in SeqsUpTo(BatchRows, MaxValRows)}
    \cup {DropColumn(Canon(t), c) :
            t \in {<<>>, <<RowA>>, <<RowB>>, <<RowA, RowB>>, <<RowA, RowC>>}, c \in Droppable}

Reverse(s) == [k \in DOMAIN s |-> s[Len(s) + 1 - k]]

Rotate(s, n) == [k \in DOMAIN s |-> s[((k - 1 + n) % Len(s)) + 1]]

\* orders in which the battery may be run; RULES is the order of the code
Orders == {RULES, Reverse(RULES), Rotate(RULES, 3), Rotate(Reverse(RULES), 5)}

RulesBatches ==
    {Canon(<<r>>) : r \in DeviantRows}
    \cup {Canon(t) : t \in SeqsUpTo({RowA, RowB, RowC, RowD, RowF}, MaxValRows - 1)}
    \cup {DropColumn(Canon(<<RowA, RowB>>), c) : c \in Droppable}

----------------------------------------------------------------------------
(* run_all_rules and run_validation *)

enrichment_vars == <<pm_raw, cm_raw, pm, cm, df_ingested, df>>

InitValidation(batches, orders) ==
    /\ pc = "rules"
    /\ df_enriched \in batches
    /\ rules \in orders
    /\ out = <<>>
    /\ breaches = <<>>
    /\ prev = <<>>
    /\ passed = <<>>
    /\ failed = <<>>
    /\ metrics = <<>>
    /\ pm_raw = NoFrame
    /\ cm_raw = NoFrame
    /\ pm = NoFrame
    /\ cm = NoFrame
    /\ df_ingested = NoFrame
    /\ df = NoFrame
    /\ NoIngestion

\* one element of out = [r(df) for r in rules]
run_rule ==
    /\ pc = "rules"
    /\ Len(out) < Len(rules)
    /\ out' = Append(out, Apply(rules[Len(out) + 1], df_enriched))
    /\ UNCHANGED <<pc, df_enriched, rules, breaches, prev, passed, failed, metrics,
                   enrichment_vars, ingestion_vars>>

\* the return of run_all_rules
concat_breaches ==
    /\ pc = "rules"
    /\ Len(out) = Len(rules)
    /\ breaches' = concat(out)
    /\ pc' = "partition"
    /\ UNCHANGED <<df_enriched, rules, out, prev, passed, failed, metrics,
                   enrichment_vars, ingestion_vars>>

\* failed_idx, passed_mask, df_passed, df_failed
partition ==
    /\ pc = "partition"
    /\ LET passed_mask == [i \in DOMAIN df_enriched.rows |->
                             ~IndexIsin(df_enriched, failed_idx(breaches))[i]]
       IN  /\ passed' = Loc(df_enriched, passed_mask)
           /\ failed' = Loc(df_enriched, [i \in DOMAIN passed_mask |-> ~passed_mask[i]])
    /\ pc' = "metrics"
    /\ UNCHANGED <<df_enriched, rules, out, breaches, prev, metrics, enrichment_vars, ingestion_vars>>

\* the metrics dict; the curated rows, the ledger and the metrics are written out
write_metrics ==
    /\ pc = "metrics"
    /\ metrics' = Metrics(df_enriched, passed, failed, breaches)
    /\ pc' = "validated"
    /\ UNCHANGED <<df_enriched, rules, out, breaches, prev, passed, failed,
                   enrichment_vars, ingestion_vars>>

\* run_all_rules called once more on the batch it has just been run on
run_again ==
    /\ pc = "partition"
    /\ prev = <<>>
    /\ prev' = <<breaches>>
    /\ out' = <<>>
    /\ breaches' = <<>>
    /\ pc' = "rules"
    /\ UNCHANGED <<df_enriched, rules, passed, failed, metrics, enrichment_vars, ingestion_vars>>

InitValid == InitValidation(ValidationBatches, {RULES})

NextValid == run_rule \/ concat_breaches \/ partition \/ write_metrics

SpecValid == InitValid /\ [][NextValid]_vars

InitRules == InitValidation(RulesBatches, Orders)

NextRules == run_rule \/ concat_breaches \/ run_again

SpecRules == InitRules /\ [][NextRules]_vars

----------------------------------------------------------------------------
(* Properties of run_validation *)

\* the index labels of a selection of rows
Members(sel) == {sel[k].row_index : k \in DOMAIN sel}

\* some rule, run alone on the batch, emits a breach for the row
Breached(i) ==
    \E r \in Range(RULES) : \E b \in Range(Apply(r, df_enriched)) : b.row_index = i

Partitioned == pc \in {"metrics", "validated"}

\* C1: every input row lands in exactly one of the passed and failed sets,
\* in the failed set iff some rule emitted a breach for it, of whatever
\* severity; passed and failed are disjoint and together as large as the input.
C1_Partition ==
    Partitioned =>
      /\ \A i \in Index(df_enriched) :
           /\ i \in Members(failed) <=> Breached(i)
           /\ i \in Members(passed) <=> ~Breached(i)
      /\ Members(passed) \cap Members(failed) = {}
      /\ Members(passed) \cup Members(failed) = Index(df_enriched)
      /\ Len(passed) + Len(failed) = Len(df_enriched.rows)
      /\ \A e \in Range(passed) \cup Range(failed) :
           e.row = df_enriched.rows[e.row_index + 1]

\* a row whose only breach is of LOW severity fails beside a clean row that passes
C1_Witness ==
    /\ pc = "validated"
    /\ df_enriched.rows = <<RowE, RowF>>
    /\ {b.severity : b \in Range(breaches)} = {"LOW"}
    /\ Members(passed) = {0}
    /\ Members(failed) = {1}

Flagged(rule_id, i) ==
    \E b \in Range(breaches) : b.rule_id = rule_id /\ b.row_index = i

\* another row of the batch holds the same values in the columns, when the
\* batch has them
Collides(i, columns) ==
    /\ columns \subseteq df_enriched.columns
    /\ \E j \in Index(df_enriched) :
         /\ j # i
         /\ \A c \in columns : df_enriched.rows[j + 1][c] = df_enriched.rows[i + 1][c]

\* C8: a row has an R007_DUPLICATES breach iff its trade_id, or its
\* (order_id, trade_ts, quantity, price), occurs in more than one row; every
\* member of a colliding group is flagged and fails; in the batch of A valid,
\* B with quantity -5 and C repeating A's trade_id all three rows fail and
\* the pass rate is 0.0.
C8_Duplicates ==
    /\ pc \in {"partition", "metrics", "validated"} =>
         \A i \in Index(df_enriched) :
           Flagged("R007_DUPLICATES", i) <=>
             \/ Collides(i, {"trade_id"})
             \/ Collides(i, {"order_id", "trade_ts", "quantity", "price"})
    /\ Partitioned =>
         \A i \in Index(df_enriched) :
           Flagged("R007_DUPLICATES", i) => i \in Members(failed)
    /\ pc = "validated" /\ df_enriched = Canon(<<RowA, RowB, RowC>>) =>
         /\ Members(failed) = {0, 1, 2}
         /\ passed = <<>>
         /\ metrics.pass_rate_pct = 0

C8_Witness ==
    /\ pc = "validated"
    /\ df_enriched = Canon(<<RowA, RowB, RowC>>)
    /\ Flagged("R007_DUPLICATES", 0)
    /\ Flagged("R007_DUPLICATES", 2)
    /\ ~Flagged("R007_DUPLICATES", 1)
    /\ Flagged("R003_POSITIVE", 1)
    /\ Len(failed) = 3
    /\ metrics.pass_rate_pct = 0

\* C9: a row has an R001_MANDATORY breach iff one of the eight mandatory
\* cells is null; when a mandatory column is absent from the batch every row
\* has one and is in the failed set, and validation runs to its end.
C9_Mandatory ==
    /\ pc \in {"partition", "metrics", "validated"} =>
         \A i \in Index(df_enriched) :
           Flagged("R001_MANDATORY", i) <=>
             \/ ~(Range(required) \subseteq df_enriched.columns)
             \/ \E c \in Range(required) : isna(df_enriched.rows[i + 1][c])
    /\ Partitioned /\ ~(Range(required) \subseteq df_enriched.columns) =>
         Members(failed) = Index(df_enriched)
    /\ pc # "raised"

\* a batch of two rows without the price column: both are flagged and fail
C9_Witness ==
    /\ pc = "validated"
    /\ "price" \notin df_enriched.columns
    /\ Index(df_enriched) = {0, 1}
    /\ Flagged("R001_MANDATORY", 0)
    /\ Flagged("R001_MANDATORY", 1)
    /\ Members(failed) = {0, 1}

\* the breaches of the seven rules, each run alone on the batch
Isolated == UNION {Range(Apply(r, df_enriched)) : r \in Range(RULES)}

C12_Metrics ==
    pc = "validated" =>
      LET input == Len(df_enriched.rows)
          clean == {i \in Index(df_enriched) : ~Breached(i)}
          den   == IF input > 1 THEN input ELSE 1
          gap   == metrics.pass_rate_pct * den - 10000 * Cardinality(clean)
      IN  /\ metrics.input_rows = input
          /\ metrics.passed_rows = Cardinality(clean)
          /\ metrics.passed_rows = Len(passed)
          /\ metrics.failed_rows = input - Cardinality(clean)
          /\ metrics.failed_rows = Len(failed)
          /\ metrics.breach_count =
               Len(Flatten([k \in DOMAIN RULES |-> Apply(RULES[k], df_enriched)]))
          /\ metrics.breach_count = Len(breaches)
          /\ 2 * Abs(gap) <= den
          /\ input = 0 =>
               /\ metrics.pass_rate_pct = 0
               /\ metrics.breach_count = 0
               /\ passed = <<>> /\ failed = <<>> /\ breaches = <<>>

\* two rows of three passed: 66.67 percent, rounded up from 66.666...
C12_Witness ==
    /\ pc = "validated"
    /\ metrics.input_rows = 3
    /\ metrics.passed_rows = 2
    /\ metrics.failed_rows = 1
    /\ metrics.breach_count >= 1
    /\ metrics.pass_rate_pct = 6667

\* the run on a canonical batch without rows has completed
C12_EmptyBatch ==
    /\ pc = "validated"
    /\ df_enriched = Canon(<<>>)
    /\ metrics.pass_rate_pct = 0

----------------------------------------------------------------------------
(* p01_ingestion/extract.py                                                 *)
(*                                                                          *)
(* A call returns [raised |-> NA, value |-> v], or [raised |-> Val(e)] with *)
(* e the exception that ends run_ingestion.                                 *)
(*                                                                          *)
(* A file as pd.read_csv returns it: quantity, price, notional, trade_date  *)
(* and trade_ts cells hold the characters of the field, every other cell a  *)
(* TLA+ string, an empty field is NA.  The dtype read_csv infers for a      *)
(* column follows from its cells (see dtype).                               *)

\* columns whose raw cells are character sequences
ParsedCols == {"quantity", "price", "notional", "trade_date", "trade_ts"}

Unsigned(s) == s # <<>> /\ IsDigits(s)

\* the literal without its sign
Magnitude(s) == IF s # <<>> /\ Head(s) = "-" THEN Tail(s) ELSE s

Dots(s) == {k \in DOMAIN s : s[k] = "."}

\* s reads as a decimal number: -?digits or -?digits.digits
IsNumeric(s) ==
    LET m == Magnitude(s)
    IN  \/ Unsigned(m)
        \/ /\ Cardinality(Dots(m)) = 1
           /\ LET k == CHOOSE j \in Dots(m) : TRUE
              IN  Unsigned(SubSeq(m, 1, k - 1)) /\ Unsigned(SubSeq(m, k + 1, Len(m)))

\* the value of a numeric literal, in hundredths (two decimals are kept)
Hundredths(s) ==
    LET m == Magnitude(s)
        sign == IF m = s THEN 1 ELSE -1
    IN  IF Dots(m) = {} THEN sign * 100 * Number(m)
        ELSE LET k == CHOOSE j \in Dots(m) : TRUE
                 frac == SubSeq(m, k + 1, Len(m))
                 cents == IF Len(frac) = 1 THEN 10 * Number(frac)
                          ELSE Number(SubSeq(frac, 1, 2))
             IN  sign * (100 * Number(SubSeq(m, 1, k - 1)) + cents)

\* pd.to_numeric(errors = "coerce") on one cell, in hundredths
to_numeric(x) ==
    IF isna(x) \/ ~IsNumeric(x[1]) THEN NA ELSE Val(Hundredths(x[1]))

\* the dtype pd.read_csv gives column c: a column of numbers and empty
\* fields is numeric, a column with any other text is object
dtype(f, c) ==
    IF f.rows = <<>> THEN "object"
    ELSE IF c \in ParsedCols
    THEN IF \A i \in DOMAIN f.rows : isna(f.rows[i][c]) \/ IsNumeric(f.rows[i][c][1])
         THEN "float64" ELSE "object"
    ELSE IF \A i \in DOMAIN f.rows : isna(f.rows[i][c])
         THEN "float64" ELSE "object"

\* pd.api.types.is_string_dtype: an object column whose cells are all text
is_string_dtype(f, c) ==
    dtype(f, c) = "object" /\ \A i \in DOMAIN f.rows : notna(f.rows[i][c])

\* load_mapping: dict(zip(source_field, target_field)), as the list of pairs
LoadMapping(file) ==
    IF isna(file) THEN [raised |-> Val([type |-> "FileNotFoundError", at |-> "load_mapping"])]
    ELSE IF ~({"source_field", "target_field"} \subseteq file[1].columns)
         THEN [raised |-> Val([type |-> "ValueError", at |-> "load_mapping"])]
         ELSE [raised |-> NA,
               value |-> [k \in DOMAIN file[1].rows |->
                            <<file[1].rows[k].source_field[1],
                              file[1].rows[k].target_field[1]>>]]

\* core.utils.read_csv
ReadCsv(file) ==
    IF isna(file) THEN [raised |-> Val([type |-> "FileNotFoundError", at |-> "read_csv"])]
    ELSE [raised |-> NA, value |-> file[1]]

\* apply_mapping: column names stripped, then renamed by the dict m, in
\* which the last pair of the file for a source field wins
ApplyMapping(f, m) ==
    LET g == TrimHeaders(f)
        hits(c) == {k \in DOMAIN m : m[k][1] = c}
        target(c) ==
            IF hits(c) = {} THEN c
            ELSE m[CHOOSE k \in hits(c) : \A j \in hits(c) : j <= k][2]
        columns == {target(c) : c \in g.columns}
    IN  Frame(columns,
              [i \in DOMAIN g.rows |->
                 [c2 \in columns |->
                    g.rows[i][CHOOSE c \in g.columns : target(c) = c2]]])

\* str.strip on one cell of a read file
strip(c, x) ==
    IF isna(x) THEN x
    ELSE IF c \in ParsedCols THEN Val(Strip(x[1])) ELSE Val(StripStr(x[1]))

\* SIDE_NORMALIZATION.get(x, x)
SIDE_NORMALIZATION(x) ==
    CASE x = "BUY" -> "BUY"
      [] x = "BUY " -> "BUY"
      [] x = "SEL" -> "SELL"
      [] x = "SELL" -> "SELL"
      [] OTHER -> x

\* n as width decimal digits
RECURSIVE Digits(_, _)
Digits(n, width) ==
    IF width = 0 THEN <<>>
    ELSE Append(Digits(n \div 10, width - 1),
                CHOOSE c \in Digit : DigitValue(c) = n % 10)

\* the calendar day of a day count, as YYYY-MM-DD
FormatDate(n) ==
    LET months == (n - 1) \div 31
    IN  Digits((months - 1) \div 12, 4) \o <<"-">>
        \o Digits(((months - 1) % 12) + 1, 2) \o <<"-">>
        \o Digits(((n - 1) % 31) + 1, 2)

\* a second of the day as Thh:mm:ssZ
FormatClock(t) ==
    <<"T">> \o Digits(t \div 3600, 2) \o <<":">> \o Digits((t \div 60) % 60, 2)
    \o <<":">> \o Digits(t % 60, 2) \o <<"Z">>

\* pd.to_datetime(errors = "coerce", utc = True) on a date or a UTC instant
to_datetime_utc(x) ==
    LET second(s) == 3600 * Number(SubSeq(s, 2, 3)) + 60 * Number(SubSeq(s, 5, 6))
                     + Number(SubSeq(s, 8, 9))
    IN  IF isna(x) THEN NA
        ELSE IF IsDate(x[1]) THEN Val([day |-> DayNumber(x[1]), second |-> 0])
        ELSE IF /\ Len(x[1]) = 20
                /\ IsDate(SubSeq(x[1], 1, 10))
                /\ IsClock(SubSeq(x[1], 11, 20))
             THEN Val([day |-> DayNumber(x[1]), second |-> second(SubSeq(x[1], 11, 20))])
             ELSE NA

\* pd.to_datetime(errors = "coerce").dt.date.astype("string") on one cell
parse_trade_date(x) ==
    LET parsed == to_datetime(x)
    IN  IF isna(parsed) THEN NA ELSE Val(FormatDate(parsed[1]))

\* pd.to_datetime(errors = "coerce", utc = True).dt.strftime on one cell
parse_trade_ts(x) ==
    LET parsed == to_datetime_utc(x)
    IN  IF isna(parsed) THEN NA
        ELSE Val(FormatDate(parsed[1].day) \o FormatClock(parsed[1].second))

(* pd.to_numeric(errors = "coerce").astype("Int64") on a column, the values *)
(* in hundredths.  From a numpy float column a value that is no whole       *)
(* number makes the cast raise TypeError.  From a column of the string      *)
(* dtype to_numeric may return a masked float array, whose cast to Int64    *)
(* cuts the value instead: which of the two happens depends on the pandas   *)
(* in use, so both outcomes are kept.                                       *)
astype_Int64(cells, from_string) ==
    LET truncate(v) == IF v >= 0 THEN v \div 100 ELSE -((-v) \div 100)
        whole == [raised |-> NA,
                  value |-> [i \in DOMAIN cells |->
                               IF isna(cells[i]) THEN NA
                               ELSE Val(truncate(cells[i][1]))]]
    IN  IF \E i \in DOMAIN cells : notna(cells[i]) /\ cells[i][1] % 100 # 0
        THEN {[raised |-> Val([type |-> "TypeError", at |-> "normalize_values"])]}
             \cup (IF from_string THEN {whole} ELSE {})
        ELSE {whole}

\* normalize_values: the outcomes it may end with
NormalizeValuesOutcomes(f) ==
    LET cell(c, i) ==
            LET x == IF is_string_dtype(f, c) THEN strip(c, f.rows[i][c])
                     ELSE f.rows[i][c]
            IN  CASE c = "side" ->
                       IF isna(x) THEN x ELSE Val(SIDE_NORMALIZATION(x[1]))
                  [] c = "trade_date" -> parse_trade_date(x)
                  [] c = "trade_ts" -> parse_trade_ts(x)
                  [] c \in {"quantity", "price"} -> to_numeric(x)
                  [] OTHER -> x
        parsed == Frame(f.columns,
                        [i \in DOMAIN f.rows |-> [c \in f.columns |-> cell(c, i)]])
    IN  IF "quantity" \in f.columns
        THEN {IF notna(q.raised) THEN q
              ELSE [raised |-> NA, value |-> WithColumn(parsed, "quantity", q.value)] :
                q \in astype_Int64([i \in DOMAIN parsed.rows |-> parsed.rows[i].quantity],
                                   is_string_dtype(f, "quantity"))}
        ELSE {[raised |-> NA, value |-> parsed]}

DTYPES ==
    [c \in Canonical |->
       CASE c = "quantity" -> "Int64"
         [] c \in {"price", "notional"} -> "float64"
         [] OTHER -> "string"]

(* df[col].astype(dtype) inside the try of coerce_schema.  quantity and     *)
(* price come out of normalize_values in their dtype, or were just added as *)
(* nulls; a text column stays text; notional was not touched before, and a  *)
(* cell that is no number makes its cast raise, which leaves the column as  *)
(* it was (the except branch only logs a warning).                          *)
astype(f, c) ==
    IF c = "notional"
    THEN IF dtype(f, c) = "object" THEN [i \in DOMAIN f.rows |-> f.rows[i][c]]
         ELSE [i \in DOMAIN f.rows |-> to_numeric(f.rows[i][c])]
    ELSE [i \in DOMAIN f.rows |-> f.rows[i][c]]

CoerceSchema(f) ==
    LET added == Frame(Canonical,
                       [i \in DOMAIN f.rows |->
                          [c \in Canonical |->
                             IF c \in f.columns THEN f.rows[i][c] ELSE NA]])
    IN  Frame(Canonical,
              [i \in DOMAIN added.rows |->
                 [c \in Canonical |-> astype(added, c)[i]]])

----------------------------------------------------------------------------
(* Inputs of run_ingestion *)

MaxRawRows == 2

\* fields as the inbound file spells them
Field ==
    [ten |-> <<"1", "0">>, ten_0 |-> <<"1", "0", ".", "0">>, one_5 |-> <<"1", ".", "5">>,
     price |-> <<"1", "0", "0", ".", "5", "0">>, notional |-> <<"1", "0", "0", "5">>,
     text |-> <<"a", "b", "c">>]

\* a record of the inbound file every field of which converts
RawRow ==
    [trade_id |-> Val("T1"), side |-> Val("BUY"), qty |-> Val(Field.ten),
     px |-> Val(Field.price), trade_date |-> Val(DATE_1), trade_ts |-> Val(TS_1),
     notional |-> Val(Field.notional)]

\* the same record under the header "qty " of the file
Padded(r) == [c \in (DOMAIN r \ {"qty"}) \cup {"qty "} |->
                IF c = "qty " THEN r.qty ELSE r[c]]

RawRows ==
    {RawRow}
    \cup {[RawRow EXCEPT !.qty = v] :
            v \in {NA, Val(Field.text), Val(Field.one_5), Val(Field.ten_0)}}
    \cup {[RawRow EXCEPT !.px = v] : v \in {NA, Val(Field.text), Val(Field.ten)}}
    \cup {[RawRow EXCEPT !.notional = v] : v \in {NA, Val(Field.text)}}
    \cup {[RawRow EXCEPT !.trade_date = v] : v \in {NA, Val(DATE_BAD), Val(Field.text)}}
    \cup {[RawRow EXCEPT !.trade_ts = v] : v \in {NA, Val(TS_2), Val(Field.text)}}
    \cup {[RawRow EXCEPT !.side = v] : v \in {NA, Val("SEL"), Val("BUY "), Val("HOLD")}}

\* the instants of one file are written in one format, and so are its dates
RawColumns == {"trade_id", "side", "qty ", "px", "trade_date", "trade_ts", "notional"}

RawFiles ==
    {Frame(RawColumns, [k \in DOMAIN t |-> Padded(t[k])]) :
       t \in SeqsUpTo(RawRows, MaxRawRows)}
    \cup {DropColumn(Frame(RawColumns, <<Padded(RawRow)>>), c) :
            c \in {"qty ", "px", "notional", "trade_ts"}}
    \cup {Frame(RawColumns, <<Padded([RawRow EXCEPT !.trade_ts = Val(DATE_2)])>>)}

MappingFiles ==
    LET MappingEntry(source, target) ==
            [source_field |-> Val(source), target_field |-> Val(target)]
    IN  {Frame({"source_field", "target_field"},
               <<MappingEntry("qty", "quantity"), MappingEntry("px", "price")>>),
         Frame({"source_field", "target_field"},
               <<MappingEntry("qty", "volume"), MappingEntry("px", "price"),
                 MappingEntry("qty", "quantity")>>),
         Frame({"source", "target_field"}, <<>>)}

----------------------------------------------------------------------------
(* run_ingestion *)

InitIngest ==
    /\ pc = "mapping"
    /\ mapping_csv \in {NA} \cup {Val(m) : m \in MappingFiles}
    /\ raw_csv \in {NA} \cup {Val(f) : f \in RawFiles}
    /\ mapping = <<>>
    /\ raw_df = NoFrame
    /\ mapped_df = NoFrame
    /\ normalized_df = NoFrame
    /\ error = NA
    /\ df_ingested = NoFrame
    /\ pm_raw = NoFrame
    /\ cm_raw = NoFrame
    /\ pm = NoFrame
    /\ cm = NoFrame
    /\ df = NoFrame
    /\ df_enriched = NoFrame
    /\ rules = <<>>
    /\ out = <<>>
    /\ breaches = <<>>
    /\ prev = <<>>
    /\ passed = <<>>
    /\ failed = <<>>
    /\ metrics = <<>>

\* mapping = load_mapping(config.MAPPING_CSV)
load_mapping ==
    /\ pc = "mapping"
    /\ LET r == LoadMapping(mapping_csv)
       IN  IF notna(r.raised)
           THEN pc' = "raised" /\ error' = r.raised /\ mapping' = mapping
           ELSE pc' = "read" /\ error' = error /\ mapping' = r.value
    /\ UNCHANGED <<mapping_csv, raw_csv, raw_df, mapped_df, normalized_df,
                   df_ingested, pm_raw, cm_raw, pm, cm, df, validation_vars>>

\* raw_df = read_csv(raw_path)
read_csv ==
    /\ pc = "read"
    /\ LET r == ReadCsv(raw_csv)
       IN  IF notna(r.raised)
           THEN pc' = "raised" /\ error' = r.raised /\ raw_df' = raw_df
           ELSE pc' = "apply" /\ error' = error /\ raw_df' = r.value
    /\ UNCHANGED <<mapping_csv, raw_csv, mapping, mapped_df, normalized_df,
                   df_ingested, pm_raw, cm_raw, pm, cm, df, validation_vars>>

\* mapped_df = apply_mapping(raw_df, mapping)
apply_mapping ==
    /\ pc = "apply"
    /\ mapped_df' = ApplyMapping(raw_df, mapping)
    /\ pc' = "normalize"
    /\ UNCHANGED <<mapping_csv, raw_csv, mapping, raw_df, normalized_df, error,
                   df_ingested, pm_raw, cm_raw, pm, cm, df, validation_vars>>

\* normalized_df = normalize_values(mapped_df)
normalize_values ==
    /\ pc = "normalize"
    /\ \E r \in NormalizeValuesOutcomes(mapped_df) :
         IF notna(r.raised)
         THEN pc' = "raised" /\ error' = r.raised /\ normalized_df' = normalized_df
         ELSE pc' = "coerce" /\ error' = error /\ normalized_df' = r.value
    /\ UNCHANGED <<mapping_csv, raw_csv, mapping, raw_df, mapped_df,
                   df_ingested, pm_raw, cm_raw, pm, cm, df, validation_vars>>

\* final_df = coerce_schema(normalized_df); return final_df
coerce_schema ==
    /\ pc = "coerce"
    /\ df_ingested' = CoerceSchema(normalized_df)
    /\ pc' = "ingested"
    /\ UNCHANGED <<mapping_csv, raw_csv, mapping, raw_df, mapped_df, normalized_df,
                   error, pm_raw, cm_raw, pm, cm, df, validation_vars>>

NextIngest ==
    \/ load_mapping
    \/ read_csv
    \/ apply_mapping
    \/ normalize_values
    \/ coerce_schema

SpecIngest == InitIngest /\ [][NextIngest]_vars

----------------------------------------------------------------------------
(* Properties of run_ingestion *)

\* the cell x of column c of the mapped file does not convert to the
\* canonical type of c
FailsToConvert(c, x) ==
    /\ notna(x)
    /\ CASE c = "quantity" -> ~IsNumeric(x[1]) \/ Hundredths(x[1]) % 100 # 0
         [] c \in {"price", "notional"} -> ~IsNumeric(x[1])
         [] c = "trade_date" -> isna(to_datetime(x))
         [] c = "trade_ts" -> isna(to_datetime_utc(x))
         [] OTHER -> FALSE

\* C11: a field that fails to convert to its canonical type during
\* ingestion is null in the canonical batch and no exception is raised;
\* run_ingestion ends with an exception only for a missing or unusable
\* mapping file or a missing inbound file.
C11_CoercionNeverAborts ==
    /\ notna(error) => error[1].at \in {"load_mapping", "read_csv"}
    /\ pc = "ingested" =>
         /\ Len(df_ingested.rows) = Len(mapped_df.rows)
         /\ \A i \in DOMAIN mapped_df.rows :
              \A c \in ParsedCols \cap mapped_df.columns :
                FailsToConvert(c, mapped_df.rows[i][c]) => isna(df_ingested.rows[i][c])

====
